---------------------------- MODULE Spec2Model ----------------------------
(***************************************************************************)
(* conv4bit: conversion of 4-bit terminal colour themes between formats.   *)
(*                                                                         *)
(* Text is modelled character by character: a Python str is a sequence of  *)
(* one-character strings ("ESC" and "BEL" stand for the bytes \033 and     *)
(* \007), a stream is a sequence of characters, and the lines a decoder    *)
(* iterates over keep their trailing "\n" as Python's file iteration does. *)
(* A Color is a record [r, g, b]; a dict is a function whose DOMAIN is its *)
(* key set; Theme is a function over its 20 field names.                   *)
(***************************************************************************)
EXTENDS Integers, Sequences, FiniteSets, TLC

VARIABLES
    pc,          \* position in main() / in the decoder called from it
    args,        \* the parsed command line: [infile, outfile, ifmt, ofmt, readable]
    ifmt,        \* resolved input format (main's local), None before
    ofmt,        \* resolved output format (main's local), None before
    infile,      \* the input stream, as the sequence of lines the decoder iterates
    doc,         \* what yaml.safe_load returns for the input stream
    lineno,      \* number of lines the running decoder has consumed
    i,           \* read_stconf's running index
    color_dict,  \* the running decoder's color_dict
    theme,       \* the Theme the decoder returned, NoTheme before
    err,         \* the exception raised, "none" if none
    out,         \* the characters written to the output stream
    status,      \* the process exit status, -1 while running
    calls,       \* the decoder and encoder functions invoked so far, in order
    src,         \* how the input at hand was built (the test's description of it)
    s,           \* argument of the Color.parse call under test
    res          \* result of the Color.parse call under test

vars == <<pc, args, ifmt, ofmt, infile, doc, lineno, i, color_dict, theme, err,
          out, status, calls, src, s, res>>

None == "None"

-----------------------------------------------------------------------------
(* String constants of the program, as character sequences.                *)
S_foreground == <<"f","o","r","e","g","r","o","u","n","d">>
S_background == <<"b","a","c","k","g","r","o","u","n","d">>
S_cursor == <<"c","u","r","s","o","r">>
S_cursor_reverse == <<"c","u","r","s","o","r","_","r","e","v","e","r","s","e">>
S_bright == <<"_","b","r","i","g","h","t">>
S_black == <<"b","l","a","c","k">>
S_red == <<"r","e","d">>
S_green == <<"g","r","e","e","n">>
S_yellow == <<"y","e","l","l","o","w">>
S_blue == <<"b","l","u","e">>
S_magenta == <<"m","a","g","e","n","t","a">>
S_cyan == <<"c","y","a","n">>
S_white == <<"w","h","i","t","e">>
S_cursorColor == <<"c","u","r","s","o","r","C","o","l","o","r">>
S_color == <<"c","o","l","o","r">>
S_color_ == <<"c","o","l","o","r","_">>
S_colors == <<"c","o","l","o","r","s">>
S_primary == <<"p","r","i","m","a","r","y">>
S_normal == <<"n","o","r","m","a","l">>
S_brightkey == <<"b","r","i","g","h","t">>
S_color_01 == <<"c","o","l","o","r","_","0","1">>
S_normal_hdr == <<"/","*"," ","8"," ","n","o","r","m","a","l"," ","c","o","l","o","r","s"," ","*","/">>
S_bright_hdr == <<"/","*"," ","8"," ","b","r","i","g","h","t"," ","c","o","l","o","r","s"," ","*","/">>
S_special_hdr == <<"/","*"," ","s","p","e","c","i","a","l"," ","c","o","l","o","r","s"," ","*","/">>
S_bg_tail == <<"\"",","," "," ","/","*"," ","b","a","c","k","g","r","o","u","n","d"," ","*","/">>
S_fg_tail == <<"\"",","," "," ","/","*"," ","f","o","r","e","g","r","o","u","n","d"," ","*","/">>
S_eq_quote == <<"]"," ","="," ","\"">>
S_open_cmt == <<"\"",","," "," ","/","*"," ">>
S_close_cmt == <<" ","*","/">>
S_xspecial == <<"!"," ","s","p","e","c","i","a","l">>
S_bang == <<"!"," ">>
S_star_dot == <<"*",".">>
S_slashes == <<"/","/">>
S_osc4 == <<"ESC","]","4",";">>
S_osc10 == <<"ESC","]","1","0",";">>
S_osc11 == <<"ESC","]","1","1",";">>
S_osc12 == <<"ESC","]","1","2",";">>
NL == <<"\n">>

-----------------------------------------------------------------------------
(* Characters                                                              *)
Digits == <<"0","1","2","3","4","5","6","7","8","9">>
HexLower == <<"0","1","2","3","4","5","6","7","8","9","a","b","c","d","e","f">>
HexUpper == <<"0","1","2","3","4","5","6","7","8","9","A","B","C","D","E","F">>

IsDigit(c) == \E k \in 1..10 : Digits[k] = c
IsHexDigit(c) == \E k \in 1..16 : HexLower[k] = c \/ HexUpper[k] = c
DigitVal(c) == CHOOSE v \in 0..9 : Digits[v + 1] = c
HexVal(c) == CHOOSE v \in 0..15 : HexLower[v + 1] = c \/ HexUpper[v + 1] = c
IsSpace(c) == c \in {" ", "\t", "\n", "\r"}

StartsWith(str, p) == Len(str) >= Len(p) /\ SubSeq(str, 1, Len(p)) = p
RemovePrefix(str, p) == IF StartsWith(str, p) THEN SubSeq(str, Len(p) + 1, Len(str)) ELSE str

\* True iff str[p..] starts with the characters of lit.
LitAt(str, p, lit) ==
    /\ Len(str) >= p + Len(lit) - 1
    /\ \A k \in 1..Len(lit) : str[p + k - 1] = lit[k]

\* [0-9a-fA-F]{6} at position p
Hex6At(str, p) == Len(str) >= p + 5 /\ \A k \in p..(p + 5) : IsHexDigit(str[k])

-----------------------------------------------------------------------------
(* Color                                                                   *)
NoColor == [r |-> -1, g |-> -1, b |-> -1]

\* int(digits[a:a+2], 16)
Hex2(str, p) == 16 * HexVal(str[p]) + HexVal(str[p + 1])

\* The regex (?:#|0x)([0-9a-fA-F]{6}) matches at position p; the position of
\* its group 1 is given by ColorDigitsAt.
ColorDigitsAt(str, p) ==
    IF LitAt(str, p, <<"#">>) THEN p + 1
    ELSE IF LitAt(str, p, <<"0","x">>) THEN p + 2
    ELSE 0
ColorMatchAt(str, p) == ColorDigitsAt(str, p) > 0 /\ Hex6At(str, ColorDigitsAt(str, p))
ColorAt(str, p) ==
    LET d == ColorDigitsAt(str, p)
    IN  [r |-> Hex2(str, d), g |-> Hex2(str, d + 2), b |-> Hex2(str, d + 4)]

\* A bug a reader of the specification's wording would introduce: re.search.
Color_parse_search(str) ==
    IF \E p \in 1..Len(str) : ColorMatchAt(str, p)
    THEN [ok |-> TRUE,
          color |-> ColorAt(str, CHOOSE p \in 1..Len(str) :
                                 /\ ColorMatchAt(str, p)
                                 /\ \A q \in 1..(p - 1) : ~ColorMatchAt(str, q))]
    ELSE [ok |-> FALSE, color |-> NoColor]

\* Color.parse: re.match anchors the pattern at the start of the string.
Color_parse(str) ==
    IF ColorMatchAt(str, 1)
    THEN [ok |-> TRUE, color |-> ColorAt(str, 1)]
    ELSE [ok |-> FALSE, color |-> NoColor]

\* f'{v:02x}'
Hex02(v) == <<HexLower[(v \div 16) + 1], HexLower[(v % 16) + 1]>>
\* Color.hex
Color_hex(c) == <<"#">> \o Hex02(c.r) \o Hex02(c.g) \o Hex02(c.b)

-----------------------------------------------------------------------------
(* Names and Theme                                                         *)
COLORS_3BIT == <<S_black, S_red, S_green, S_yellow, S_blue, S_magenta, S_cyan, S_white>>

\* f'{name}_bright'
Bright(name) == name \o S_bright

NAME_FOR ==
    [n \in 0..15 |-> IF n < 8 THEN COLORS_3BIT[n + 1] ELSE Bright(COLORS_3BIT[n - 7])]

\* Theme's fields without a default, and all of its fields.
RequiredFields == {S_foreground, S_background} \cup {NAME_FOR[n] : n \in 0..15}
ThemeFields == RequiredFields \cup {S_cursor, S_cursor_reverse}

\* The default_factory of cursor and cursor_reverse.
FieldDefault(f) ==
    IF f = S_cursor THEN Color_parse(<<"#","c","c","c","c","c","c">>).color
    ELSE Color_parse(<<"#","5","5","5","5","5","5">>).color

NoTheme == [f \in {} |-> NoColor]
EmptyDict == [f \in {} |-> NoColor]

\* d[k] = v
DictSet(d, k, v) == [x \in (DOMAIN d) \cup {k} |-> IF x = k THEN v ELSE d[x]]

\* A defect that would let a partial Theme through: every field defaulted.
Theme_new_lenient(cd) ==
    [ok |-> TRUE,
     theme |-> [f \in ThemeFields |-> IF f \in DOMAIN cd THEN cd[f] ELSE FieldDefault(f)]]

\* Theme(**color_dict): the dataclass __init__ raises TypeError on an unexpected
\* keyword and on a missing field that has no default.
Theme_new(cd) ==
    IF (DOMAIN cd) \subseteq ThemeFields /\ RequiredFields \subseteq (DOMAIN cd)
    THEN [ok |-> TRUE,
          theme |-> [f \in ThemeFields |-> IF f \in DOMAIN cd THEN cd[f] ELSE FieldDefault(f)]]
    ELSE [ok |-> FALSE, theme |-> NoTheme]

-----------------------------------------------------------------------------
(* Streams.  A stream is kept as its lines: every line but possibly the    *)
(* last ends in "\n", which is what iterating a Python file yields.        *)
EndsLine(line) == Len(line) > 0 /\ line[Len(line)] = "\n"

\* w.write(chars), chars holding no "\n" except possibly as its last character.
Write(w, chars) ==
    IF Len(w) > 0 /\ ~EndsLine(w[Len(w)])
    THEN [w EXCEPT ![Len(w)] = @ \o chars]
    ELSE Append(w, chars)

\* print(str, file=w) and print(str, file=w, end='')
print(w, str) == Write(w, str \o NL)
print_noend(w, str) == Write(w, str)

\* for line in lines: print(line, file=w).  Once the first line is printed
\* the stream ends in "\n", so every further one starts a line of its own.
print_all(w, lines) ==
    IF lines = <<>> THEN w
    ELSE print(w, lines[1]) \o [k \in 1..(Len(lines) - 1) |-> lines[k + 1] \o NL]

RECURSIVE Dec(_)
\* f'{n}' for n >= 0
Dec(n) == IF n < 10 THEN <<Digits[n + 1]>> ELSE Dec(n \div 10) \o <<Digits[(n % 10) + 1]>>

\* f'{n:02d}' for 0 <= n < 100
Dec02(n) == <<Digits[(n \div 10) + 1], Digits[(n % 10) + 1]>>

RECURSIVE Ljust(_, _)
\* f'{str:{width}s}'
Ljust(str, width) == IF Len(str) >= width THEN str ELSE Ljust(str \o <<" ">>, width)

-----------------------------------------------------------------------------
(* Encoders                                                                *)

\* keys of write_nidx and write_csv: foreground, background, each colour
\* followed by its bright variant, cursor, cursor_reverse
FieldOrder ==
    <<S_foreground, S_background>>
    \o [n \in 1..16 |-> IF n % 2 = 1 THEN COLORS_3BIT[(n + 1) \div 2]
                                     ELSE Bright(COLORS_3BIT[n \div 2])]
    \o <<S_cursor, S_cursor_reverse>>

write_nidx(w, t) ==
    print_all(w, [n \in 1..Len(FieldOrder) |->
                    FieldOrder[n] \o <<" ">> \o Color_hex(t[FieldOrder[n]])])

write_csv(w, t) ==
    print_all(w, [n \in 1..Len(FieldOrder) |->
                    FieldOrder[n] \o <<",">> \o Color_hex(t[FieldOrder[n]])])

\* f'[{n}] = "{color.hex()}",  /* {name} */'
StconfEntry(n, t) ==
    <<"[">> \o Dec(n) \o S_eq_quote \o Color_hex(t[NAME_FOR[n]])
    \o S_open_cmt \o NAME_FOR[n] \o S_close_cmt

write_stconf(w, t) ==
    print_all(w,
        <<S_normal_hdr>> \o [n \in 1..8 |-> StconfEntry(n - 1, t)] \o << <<>> >>
        \o <<S_bright_hdr>> \o [n \in 1..8 |-> StconfEntry(n + 7, t)] \o << <<>> >>
        \o <<S_special_hdr,
             <<"[">> \o Dec(256) \o S_eq_quote \o Color_hex(t[S_background]) \o S_bg_tail,
             <<"[">> \o Dec(257) \o S_eq_quote \o Color_hex(t[S_foreground]) \o S_fg_tail>>)

\* write_xres.print_color
XresLine(name, color) == Ljust(S_star_dot \o name \o <<":">>, 16) \o Color_hex(color)

\* The block write_xres prints for COLORS_3BIT[n + 1]
XresBlock(n, t) ==
    << <<>>,
       S_bang \o COLORS_3BIT[n + 1],
       XresLine(S_color \o Dec(n), t[COLORS_3BIT[n + 1]]),
       XresLine(S_color \o Dec(n + 8), t[Bright(COLORS_3BIT[n + 1])]) >>

\* The blocks of all 8 colours, one after the other.
XresBlocks(t) == [k \in 1..32 |-> XresBlock((k - 1) \div 4, t)[((k - 1) % 4) + 1]]

write_xres(w, t) ==
    print_all(w,
        <<S_xspecial,
          XresLine(S_foreground, t[S_foreground]),
          XresLine(S_background, t[S_background]),
          XresLine(S_cursorColor, t[S_cursor])>>
        \o XresBlocks(t))

\* f'\033]4;{n};{c.hex()}\007'
OscPalette(n, c) == S_osc4 \o Dec(n) \o <<";">> \o Color_hex(c) \o <<"BEL">>

RECURSIVE OscPairsSeparated(_, _, _)
\* A reordering of write_osc's loop: all normal colours, then all bright ones.
OscPairsSeparated(w, t, n) ==
    IF n > 15 THEN w
    ELSE OscPairsSeparated(print_noend(w, OscPalette(n, t[NAME_FOR[n]])), t, n + 1)

RECURSIVE OscPairs(_, _, _)
\* The loop of write_osc from iteration n on: index n, then index n + 8.
OscPairs(w, t, n) ==
    IF n > 7 THEN w
    ELSE OscPairs(
            print_noend(
                print_noend(w, OscPalette(n, t[COLORS_3BIT[n + 1]])),
                OscPalette(n + 8, t[Bright(COLORS_3BIT[n + 1])])),
            t, n + 1)

write_osc_separated(w, t) ==
    print_noend(
        print_noend(
            print_noend(OscPairsSeparated(w, t, 0),
                        S_osc10 \o Color_hex(t[S_foreground]) \o <<"BEL">>),
            S_osc11 \o Color_hex(t[S_background]) \o <<"BEL">>),
        S_osc12 \o Color_hex(t[S_cursor]) \o <<"BEL">>)

write_osc(w, t) ==
    print_noend(
        print_noend(
            print_noend(OscPairs(w, t, 0),
                        S_osc10 \o Color_hex(t[S_foreground]) \o <<"BEL">>),
            S_osc11 \o Color_hex(t[S_background]) \o <<"BEL">>),
        S_osc12 \o Color_hex(t[S_cursor]) \o <<"BEL">>)

-----------------------------------------------------------------------------
(* Text helpers of the decoders                                            *)

RECURSIVE SplitWsFrom(_, _, _)
\* str.split() of str[p..], tok being the token under way
SplitWsFrom(str, p, tok) ==
    IF p > Len(str) THEN (IF tok = <<>> THEN <<>> ELSE <<tok>>)
    ELSE IF IsSpace(str[p])
         THEN (IF tok = <<>> THEN <<>> ELSE <<tok>>) \o SplitWsFrom(str, p + 1, <<>>)
         ELSE SplitWsFrom(str, p + 1, Append(tok, str[p]))

\* line.split()
SplitWs(str) == SplitWsFrom(str, 1, <<>>)

RECURSIVE SplitOnFrom(_, _, _, _)
SplitOnFrom(str, ch, p, piece) ==
    IF p > Len(str) THEN <<piece>>
    ELSE IF str[p] = ch THEN <<piece>> \o SplitOnFrom(str, ch, p + 1, <<>>)
         ELSE SplitOnFrom(str, ch, p + 1, Append(piece, str[p]))

\* line.split(ch)
SplitOn(str, ch) == SplitOnFrom(str, ch, 1, <<>>)

\* The end (exclusive) of the longest run of digits, resp. of spaces, from p.
DigitsEnd(str, p) ==
    CHOOSE q \in p..(Len(str) + 1) :
        /\ \A k \in p..(q - 1) : IsDigit(str[k])
        /\ (q = Len(str) + 1 \/ ~IsDigit(str[q]))
SpacesEnd(str, p) ==
    CHOOSE q \in p..(Len(str) + 1) :
        /\ \A k \in p..(q - 1) : str[k] = " "
        /\ (q = Len(str) + 1 \/ str[q] # " ")

RECURSIVE DigitsValue(_, _)
\* the value of the decimal digits `digits`, acc being the value read so far
DigitsValue(digits, acc) ==
    IF digits = <<>> THEN acc
    ELSE DigitsValue(Tail(digits), 10 * acc + DigitVal(Head(digits)))

\* str.strip()
Strip(str) ==
    IF \A k \in 1..Len(str) : IsSpace(str[k]) THEN <<>>
    ELSE LET a == CHOOSE k \in 1..Len(str) :
                     ~IsSpace(str[k]) /\ \A j \in 1..(k - 1) : IsSpace(str[j])
             b == CHOOSE k \in 1..Len(str) :
                     ~IsSpace(str[k]) /\ \A j \in (k + 1)..Len(str) : IsSpace(str[j])
         IN  SubSeq(str, a, b)

\* int(str): surrounding whitespace and one sign are accepted, then decimal
\* digits only (the underscore grouping int() also accepts is left out).
PyInt(str) ==
    LET t == Strip(str)
        neg == Len(t) > 0 /\ t[1] = "-"
        body == IF Len(t) > 0 /\ t[1] \in {"-", "+"} THEN Tail(t) ELSE t
    IN  IF body # <<>> /\ \A k \in 1..Len(body) : IsDigit(body[k])
        THEN [ok |-> TRUE,
              val |-> IF neg THEN 0 - DigitsValue(body, 0) ELSE DigitsValue(body, 0)]
        ELSE [ok |-> FALSE, val |-> 0]

-----------------------------------------------------------------------------
(* read_stconf's pattern  (?:\[(\d+)\] += +)?"(#[0-9a-fA-F]{6}")           *)

\* "(#[0-9a-fA-F]{6}") at p
QuotedHexAt(str, p) ==
    /\ LitAt(str, p, <<"\"", "#">>)
    /\ Hex6At(str, p + 2)
    /\ LitAt(str, p + 8, <<"\"">>)

\* \[(\d+)\] += +  at p: the position after it, 0 if it does not match
StconfPrefixEnd(str, p) ==
    IF ~LitAt(str, p, <<"[">>) THEN 0
    ELSE LET d == DigitsEnd(str, p + 1)
         IN  IF d = p + 1 \/ ~LitAt(str, d, <<"]">>) THEN 0
             ELSE LET a == SpacesEnd(str, d + 1)
                  IN  IF a = d + 1 \/ ~LitAt(str, a, <<"=">>) THEN 0
                      ELSE LET b == SpacesEnd(str, a + 1)
                           IN  IF b = a + 1 THEN 0 ELSE b

\* The match of the pattern that starts at p: [ok, num, hex], num being group 1
\* (None when the optional part took no part) and hex group 2.
StconfMatchAt(str, p) ==
    LET e == StconfPrefixEnd(str, p)
    IN  IF e > 0 /\ QuotedHexAt(str, e)
        THEN [ok |-> TRUE,
              num |-> SubSeq(str, p + 1, DigitsEnd(str, p + 1) - 1),
              hex |-> SubSeq(str, e + 1, e + 8)]
        ELSE IF QuotedHexAt(str, p)
        THEN [ok |-> TRUE, num |-> <<>>, hex |-> SubSeq(str, p + 1, p + 8)]
        ELSE [ok |-> FALSE, num |-> <<>>, hex |-> <<>>]

\* re.search: the match at the leftmost position that has one.  An empty num
\* stands for Python's None (group 1 cannot match the empty string).
StconfSearch(str) ==
    IF \E p \in 1..Len(str) : StconfMatchAt(str, p).ok
    THEN StconfMatchAt(str, CHOOSE p \in 1..Len(str) :
                               /\ StconfMatchAt(str, p).ok
                               /\ \A q \in 1..(p - 1) : ~StconfMatchAt(str, q).ok)
    ELSE [ok |-> FALSE, num |-> <<>>, hex |-> <<>>]

\* color_for of read_stconf: NAME_FOR plus 256 and 257
color_for ==
    [n \in (0..15) \cup {256, 257} |->
        IF n = 256 THEN S_background ELSE IF n = 257 THEN S_foreground ELSE NAME_FOR[n]]

-----------------------------------------------------------------------------
(* read_xres's patterns                                                    *)

\* A stricter reader: only comment lines are passed over, blank ones are not.
XresSkippedCommentsOnly(line) == StartsWith(line, <<"!">>)

\* line.startswith('!') or re.search(r'^\s*$', line)
XresSkipped(line) == StartsWith(line, <<"!">>) \/ \A k \in 1..Len(line) : IsSpace(line[k])

\* The position of the first ':' at or after p, Len(str) + 1 if there is none.
ColonFrom(str, p) ==
    CHOOSE q \in p..(Len(str) + 1) :
        /\ \A k \in p..(q - 1) : str[k] # ":"
        /\ (q = Len(str) + 1 \/ str[q] = ":")

\* ([^:]+): *(#[a-fA-F0-9]{6}) at p: group 1 runs to the next ':'
XresMatchAt(str, p) ==
    LET q == ColonFrom(str, p)
        h == SpacesEnd(str, q + 1)
    IN  IF q > p /\ q <= Len(str) /\ LitAt(str, h, <<"#">>) /\ Hex6At(str, h + 1)
        THEN [ok |-> TRUE, label |-> SubSeq(str, p, q - 1), hex |-> SubSeq(str, h, h + 6)]
        ELSE [ok |-> FALSE, label |-> <<>>, hex |-> <<>>]

XresSearch(str) ==
    IF \E p \in 1..Len(str) : XresMatchAt(str, p).ok
    THEN XresMatchAt(str, CHOOSE p \in 1..Len(str) :
                             /\ XresMatchAt(str, p).ok
                             /\ \A q \in 1..(p - 1) : ~XresMatchAt(str, q).ok)
    ELSE [ok |-> FALSE, label |-> <<>>, hex |-> <<>>]

\* re.sub(r'.*[.*]', '', label): what follows the last '*' or '.'
ReduceLabel(label) ==
    IF \E k \in 1..Len(label) : label[k] \in {"*", "."}
    THEN SubSeq(label,
                1 + (CHOOSE k \in 1..Len(label) :
                        /\ label[k] \in {"*", "."}
                        /\ \A j \in (k + 1)..Len(label) : label[j] \notin {"*", "."}),
                Len(label))
    ELSE label

-----------------------------------------------------------------------------
(* The parsed YAML document.  A value is a string, null or a mapping; a    *)
(* mapping is a function from keys to values.                              *)
YStr(chars) == [k |-> "str", str |-> chars, m |-> <<>>]
YNull == [k |-> "null", str |-> <<>>, m |-> <<>>]
YMap(f) == [k |-> "map", str |-> <<>>, m |-> f]

\* sub in str, for two Python strings
Contains(str, sub) == \E p \in 1..(Len(str) + 1) : LitAt(str, p, sub)

\* key in v: "True", "False" or the exception raised
PyIn(key, v) ==
    IF v.k = "map" THEN (IF key \in DOMAIN v.m THEN "True" ELSE "False")
    ELSE IF v.k = "str" THEN (IF Contains(v.str, key) THEN "True" ELSE "False")
    ELSE "TypeError"

\* v[key]: [err, val]
PyGet(v, key) ==
    IF v.k = "map" /\ key \in DOMAIN v.m THEN [err |-> "none", val |-> v.m[key]]
    ELSE IF v.k = "map" THEN [err |-> "KeyError", val |-> YNull]
    ELSE [err |-> "TypeError", val |-> YNull]

\* Color.parse(v[key]): [err, color]; re.match raises TypeError on a non-string
ParseAt(v, key) ==
    LET g == PyGet(v, key)
    IN  IF g.err # "none" THEN [err |-> g.err, color |-> NoColor]
        ELSE IF g.val.k # "str" THEN [err |-> "TypeError", color |-> NoColor]
        ELSE IF ~Color_parse(g.val.str).ok THEN [err |-> "Exception", color |-> NoColor]
        ELSE [err |-> "none", color |-> Color_parse(g.val.str).color]

\* The (field, key) pairs of read_yaml_gogh's first loop, in the order read.
GoghColorReads ==
    [n \in 1..16 |->
        IF n % 2 = 1
        THEN [field |-> COLORS_3BIT[(n + 1) \div 2], key |-> S_color_ \o Dec02((n + 1) \div 2)]
        ELSE [field |-> Bright(COLORS_3BIT[n \div 2]), key |-> S_color_ \o Dec02((n \div 2) + 8)]]

\* A variant that reads no cursor key, as read_yaml_alacritty does.
GoghReadsNoCursor ==
    GoghColorReads
    \o <<[field |-> S_foreground, key |-> S_foreground],
         [field |-> S_background, key |-> S_background]>>

\* All the (field, key) pairs read_yaml_gogh reads: the 16 colours, then
\* foreground, background and cursor.
GoghReads ==
    GoghColorReads
    \o <<[field |-> S_foreground, key |-> S_foreground],
         [field |-> S_background, key |-> S_background],
         [field |-> S_cursor, key |-> S_cursor]>>

\* The (field, table, key) triples read_yaml_alacritty reads, in order.
AlacrittyReads ==
    <<[field |-> S_foreground, table |-> S_primary, key |-> S_foreground],
      [field |-> S_background, table |-> S_primary, key |-> S_background]>>
    \o [n \in 1..16 |->
        IF n % 2 = 1
        THEN [field |-> COLORS_3BIT[(n + 1) \div 2], table |-> S_normal,
              key |-> COLORS_3BIT[(n + 1) \div 2]]
        ELSE [field |-> Bright(COLORS_3BIT[n \div 2]), table |-> S_brightkey,
              key |-> COLORS_3BIT[n \div 2]]]

\* Color.parse(doc['colors'][table][key])
ParseNested(d, table, key) ==
    LET c == PyGet(d, S_colors)
        t == PyGet(c.val, table)
    IN  IF c.err # "none" THEN [err |-> c.err, color |-> NoColor]
        ELSE IF t.err # "none" THEN [err |-> t.err, color |-> NoColor]
        ELSE ParseAt(t.val, key)

\* The outcome of a sequence of reads, each [field, err, color]: the first
\* error, or the color_dict they fill.
ReadsOutcome(reads) ==
    IF \E n \in 1..Len(reads) : reads[n].err # "none"
    THEN [err |-> reads[CHOOSE n \in 1..Len(reads) :
                          /\ reads[n].err # "none"
                          /\ \A j \in 1..(n - 1) : reads[j].err = "none"].err,
          dict |-> EmptyDict]
    ELSE [err |-> "none",
          dict |-> [f \in {reads[n].field : n \in 1..Len(reads)} |->
                      reads[CHOOSE n \in 1..Len(reads) : reads[n].field = f].color]]

-----------------------------------------------------------------------------
(* The format registry                                                     *)
IFORMATS == {"yaml", "yml", "nidx", "stconf", "xres", "csv"}
OFORMATS == {"stconf", "nidx", "xres", "csv", "osc"}

DecoderName(f) ==
    CASE f \in {"yaml", "yml"} -> "read_yaml"
      [] f = "nidx" -> "read_nidx"
      [] f = "stconf" -> "read_stconf"
      [] f = "xres" -> "read_xres"
      [] f = "csv" -> "read_csv"

EncoderName(f) ==
    CASE f = "stconf" -> "write_stconf"
      [] f = "nidx" -> "write_nidx"
      [] f = "xres" -> "write_xres"
      [] f = "csv" -> "write_csv"
      [] f = "osc" -> "write_osc"

\* OFORMATS[f](w, t)
Encode(f, w, t) ==
    CASE f = "stconf" -> write_stconf(w, t)
      [] f = "nidx" -> write_nidx(w, t)
      [] f = "xres" -> write_xres(w, t)
      [] f = "csv" -> write_csv(w, t)
      [] f = "osc" -> write_osc(w, t)

-----------------------------------------------------------------------------
(* Steps of main() and of the decoder it calls.  pc is                      *)
(*   "start"     before the stdin/stdout checks (lines 332-337)            *)
(*   "resolve"   before the format resolution (lines 339-355)              *)
(*   "open"      before the with statement opens the files (357-360)       *)
(*   "call"      before IFORMATS[ifmt](infile) (361)                       *)
(*   "decode"    inside the decoder, at the head of its loop               *)
(*   "gogh", "alacritty"  inside read_yaml_gogh / read_yaml_alacritty      *)
(*   "encode"    before OFORMATS[ofmt](outfile, theme) (362)               *)
(*   "exit"      the process has ended, with exit status `status`          *)

InputVars == <<args, infile, doc, src, s, res>>

\* An exception nothing catches: Python prints the traceback and exits with 1.
Raise(kind) ==
    /\ err' = kind
    /\ pc' = "exit"
    /\ status' = 1

\* The decoder consumes the line at hand and goes on to the next one.
NextLine(dict, idx) ==
    /\ lineno' = lineno + 1
    /\ color_dict' = dict
    /\ i' = idx
    /\ UNCHANGED <<pc, err, status>>

\* The decoder raises while reading the line at hand.
LineRaises(kind) ==
    /\ Raise(kind)
    /\ UNCHANGED <<lineno, color_dict, i>>

InLoop(f) == pc = "decode" /\ ifmt = f /\ lineno < Len(infile)

\* main, line 361: the call of the decoder, and the decoder's prologue.
CallDecoder ==
    /\ pc = "call"
    /\ pc' = "decode"
    /\ calls' = Append(calls, DecoderName(ifmt))
    /\ lineno' = 0
    /\ i' = 0
    /\ color_dict' = EmptyDict
    /\ UNCHANGED <<ifmt, ofmt, theme, err, out, status, InputVars>>

\* One iteration of read_nidx's loop.
NidxLine ==
    /\ InLoop("nidx")
    /\ LET line == infile[lineno + 1]
           toks == SplitWs(line)
       IN  IF StartsWith(line, <<"#">>) THEN NextLine(color_dict, i)
           ELSE IF Len(toks) # 2 THEN LineRaises("Exception")
           ELSE IF ~Color_parse(toks[2]).ok THEN LineRaises("Exception")
           ELSE NextLine(DictSet(color_dict, toks[1], Color_parse(toks[2]).color), i)
    /\ UNCHANGED <<ifmt, ofmt, theme, out, calls, InputVars>>

\* One iteration of read_csv's loop.
CsvLine ==
    /\ InLoop("csv")
    /\ LET line == infile[lineno + 1]
           toks == SplitOn(line, ",")
       IN  IF StartsWith(line, <<"#">>) THEN NextLine(color_dict, i)
           ELSE IF Len(toks) # 2 THEN LineRaises("Exception")
           ELSE IF ~Color_parse(toks[2]).ok THEN LineRaises("Exception")
           ELSE NextLine(DictSet(color_dict, toks[1], Color_parse(toks[2]).color), i)
    /\ UNCHANGED <<ifmt, ofmt, theme, out, calls, InputVars>>

\* The index read_stconf records the literal of match m at.
StconfIndex(m, idx) == IF m.num # <<>> THEN DigitsValue(m.num, 0) ELSE idx

\* A defect: the running index is not advanced past an explicit index.
StconfNextIndexStuck(m, idx) == IF m.num # <<>> THEN DigitsValue(m.num, 0) ELSE idx + 1

\* The running index after the literal of match m has been recorded.
StconfNextIndex(m, idx) == StconfIndex(m, idx) + 1

\* A defect: an index outside color_for is skipped instead of raising.
StconfUnknownIndexSkipped(dict, idx) == NextLine(dict, idx + 1)

\* color_for[i] with i outside color_for
StconfUnknownIndex(dict, idx) == LineRaises("KeyError")

\* One iteration of read_stconf's loop; the break on i > 257 ends the loop.
StconfLine ==
    /\ InLoop("stconf")
    /\ i <= 257
    /\ LET line == infile[lineno + 1]
           m == StconfSearch(line)
           idx == StconfIndex(m, i)
       IN  IF StartsWith(line, S_slashes) THEN NextLine(color_dict, i)
           ELSE IF ~m.ok THEN NextLine(color_dict, i)
           ELSE IF ~Color_parse(m.hex).ok THEN LineRaises("Exception")
           ELSE IF idx \notin DOMAIN color_for THEN StconfUnknownIndex(color_dict, idx)
           ELSE NextLine(DictSet(color_dict, color_for[idx], Color_parse(m.hex).color),
                         StconfNextIndex(m, i))
    /\ UNCHANGED <<ifmt, ofmt, theme, out, calls, InputVars>>

\* A defect-free variant the specification describes: an unknown label raises.
XresUnknownLabelRaises(dict) == LineRaises("KeyError")

\* read_xres on a label that is none of foreground, background, cursorColor
\* and does not start with 'color': no branch is taken.
XresUnknownLabel(dict) == NextLine(dict, i)

\* One iteration of read_xres's loop.
XresLineStep ==
    /\ InLoop("xres")
    /\ LET line == infile[lineno + 1]
           m == XresSearch(line)
           label == ReduceLabel(m.label)
           color == Color_parse(m.hex).color
           num == PyInt(RemovePrefix(label, S_color))
       IN  IF XresSkipped(line) THEN NextLine(color_dict, i)
           ELSE IF ~m.ok THEN LineRaises("Exception")
           ELSE IF label \in {S_foreground, S_background}
                THEN NextLine(DictSet(color_dict, label, color), i)
           ELSE IF label = S_cursorColor
                THEN NextLine(DictSet(color_dict, S_cursor, color), i)
           ELSE IF StartsWith(label, S_color)
                THEN IF ~num.ok THEN LineRaises("ValueError")
                     ELSE IF num.val \notin DOMAIN NAME_FOR THEN LineRaises("KeyError")
                     ELSE NextLine(DictSet(color_dict, NAME_FOR[num.val], color), i)
           ELSE XresUnknownLabel(color_dict)
    /\ UNCHANGED <<ifmt, ofmt, theme, out, calls, InputVars>>

\* Theme(**color_dict) and the return to main, from a decoder or from one of
\* the two YAML readers.
Construct(dict) ==
    IF Theme_new(dict).ok
    THEN /\ theme' = Theme_new(dict).theme
         /\ pc' = "encode"
         /\ UNCHANGED <<err, status>>
    ELSE /\ Raise("TypeError")
         /\ UNCHANGED theme

\* The loop of a line decoder has ended (the stream is exhausted, or
\* read_stconf's break): return Theme(**color_dict).
ReturnTheme ==
    /\ pc = "decode"
    /\ ifmt \in {"nidx", "csv", "stconf", "xres"}
    /\ lineno = Len(infile) \/ (ifmt = "stconf" /\ i > 257)
    /\ Construct(color_dict)
    /\ UNCHANGED <<ifmt, ofmt, lineno, i, color_dict, out, calls, InputVars>>

\* The branch read_yaml takes: "gogh", "alacritty", or the exception raised.
YamlRoute(d) ==
    IF PyIn(S_color_01, d) = "TypeError" THEN "TypeError"
    ELSE IF PyIn(S_color_01, d) = "True" THEN "gogh"
    ELSE IF PyIn(S_colors, d) = "False" THEN "ValueError"
    ELSE IF PyGet(d, S_colors).err # "none" THEN PyGet(d, S_colors).err
    ELSE IF PyIn(S_primary, PyGet(d, S_colors).val) = "TypeError" THEN "TypeError"
    ELSE IF PyIn(S_primary, PyGet(d, S_colors).val) = "True" THEN "alacritty"
    ELSE "ValueError"

\* read_yaml: the dispatch on the shape of the document.
ReadYaml ==
    /\ pc = "decode"
    /\ ifmt \in {"yaml", "yml"}
    /\ LET route == YamlRoute(doc)
       IN  IF route \in {"gogh", "alacritty"}
           THEN /\ pc' = route
                /\ calls' = Append(calls, "read_yaml_" \o route)
                /\ UNCHANGED <<err, status>>
           ELSE /\ Raise(route)
                /\ UNCHANGED calls
    /\ UNCHANGED <<ifmt, ofmt, lineno, i, color_dict, theme, out, InputVars>>

\* read_yaml_gogh
ReadYamlGogh ==
    /\ pc = "gogh"
    /\ LET o == ReadsOutcome([n \in 1..Len(GoghReads) |->
                    [field |-> GoghReads[n].field,
                     err |-> ParseAt(doc, GoghReads[n].key).err,
                     color |-> ParseAt(doc, GoghReads[n].key).color]])
       IN  IF o.err # "none"
           THEN Raise(o.err) /\ UNCHANGED <<theme, color_dict>>
           ELSE color_dict' = o.dict /\ Construct(o.dict)
    /\ UNCHANGED <<ifmt, ofmt, lineno, i, out, calls, InputVars>>

\* read_yaml_alacritty
ReadYamlAlacritty ==
    /\ pc = "alacritty"
    /\ LET o == ReadsOutcome([n \in 1..Len(AlacrittyReads) |->
                    [field |-> AlacrittyReads[n].field,
                     err |-> ParseNested(doc, AlacrittyReads[n].table, AlacrittyReads[n].key).err,
                     color |-> ParseNested(doc, AlacrittyReads[n].table, AlacrittyReads[n].key).color]])
       IN  IF o.err # "none"
           THEN Raise(o.err) /\ UNCHANGED <<theme, color_dict>>
           ELSE color_dict' = o.dict /\ Construct(o.dict)
    /\ UNCHANGED <<ifmt, ofmt, lineno, i, out, calls, InputVars>>

\* main, line 362, and the normal end of the process.
CallEncoder ==
    /\ pc = "encode"
    /\ calls' = Append(calls, EncoderName(ofmt))
    /\ out' = Encode(ofmt, out, theme)
    /\ pc' = "exit"
    /\ status' = 0
    /\ UNCHANGED <<ifmt, ofmt, lineno, i, color_dict, theme, err, InputVars>>

-----------------------------------------------------------------------------
(* Values of the variables a specification does not use.                   *)
NoArgs == [infile |-> "-", outfile |-> "-", ifmt |-> None, ofmt |-> None, readable |-> TRUE]

NoPipeline ==
    /\ args = NoArgs /\ ifmt = None /\ ofmt = None
    /\ infile = <<>> /\ doc = YNull
    /\ lineno = 0 /\ i = 0 /\ color_dict = EmptyDict /\ theme = NoTheme
    /\ err = "none" /\ out = <<>> /\ status = -1 /\ calls = <<>>

NoParse == s = <<>> /\ res = [ok |-> FALSE, color |-> NoColor]

-----------------------------------------------------------------------------
(* Color.parse on its own.  The strings tried are pre \o prefix \o digits  *)
(* \o post; src records the four parts.                                    *)
ParsePre ==
    {<<>>, <<" ">>, <<"\"">>, <<"x", "=">>, <<"#", "1", "2", " ">>,
     <<"#", "0", "0", "0", "0", "f", "F", " ">>}
ParsePrefix == {<<"#">>, <<"0", "x">>, <<"0", "X">>, <<>>}
ParsePost == {<<>>, <<"\"">>, <<"\n">>, <<"z">>}
\* digit strings, with whether they start with 6 hex digits and the Color
\* those spell
ParseDigits ==
    <<[txt |-> <<"1", "a", "2", "b", "3", "c">>, valid |-> TRUE,
       color |-> [r |-> 26, g |-> 43, b |-> 60]],
      [txt |-> <<"F", "f", "0", "0", "9", "E">>, valid |-> TRUE,
       color |-> [r |-> 255, g |-> 0, b |-> 158]],
      [txt |-> <<"c", "C", "d", "D", "0", "7", "4">>, valid |-> TRUE,
       color |-> [r |-> 204, g |-> 221, b |-> 7]],
      [txt |-> <<"1", "a", "2", "b", "3">>, valid |-> FALSE, color |-> NoColor],
      [txt |-> <<"1", "a", "2", "g", "3", "c">>, valid |-> FALSE, color |-> NoColor]>>
\* the pre that is itself a colour, and the Color it spells
ParsePreColor == <<"#", "0", "0", "0", "0", "f", "F", " ">>
ParsePreColorValue == [r |-> 0, g |-> 0, b |-> 255]

InitParse ==
    /\ src \in [pre : ParsePre, prefix : ParsePrefix, digits : 1..Len(ParseDigits),
                post : ParsePost]
    /\ s = src.pre \o src.prefix \o ParseDigits[src.digits].txt \o src.post
    /\ res = [ok |-> FALSE, color |-> NoColor]
    /\ pc = "parse"
    /\ NoPipeline

\* res = Color.parse(s), caught
ColorParseCall ==
    /\ pc = "parse"
    /\ res' = Color_parse(s)
    /\ pc' = "parsed"
    /\ UNCHANGED <<args, ifmt, ofmt, infile, doc, lineno, i, color_dict, theme, err,
                   out, status, calls, src, s>>

NextParse == ColorParseCall
SpecParse == InitParse /\ [][NextParse]_vars

\* src holds an occurrence of the pattern somewhere / at its very start
ParseHasOccurrence ==
    \/ src.pre = ParsePreColor
    \/ src.prefix \in {<<"#">>, <<"0", "x">>} /\ ParseDigits[src.digits].valid
ParseStartsWithOccurrence ==
    \/ src.pre = ParsePreColor
    \/ src.pre = <<>> /\ src.prefix \in {<<"#">>, <<"0", "x">>} /\ ParseDigits[src.digits].valid
ParseFirstOccurrence ==
    IF src.pre = ParsePreColor THEN ParsePreColorValue ELSE ParseDigits[src.digits].color

\* C7 as claimed: Color.parse succeeds exactly when the string holds, at any
\* position, '#' or '0x' followed by 6 hex digits, and returns the Color of the
\* first such occurrence.
C7_AnyPosition ==
    pc = "parsed" =>
        /\ res.ok <=> ParseHasOccurrence
        /\ res.ok => res.color = ParseFirstOccurrence

\* C7 amended: Color.parse succeeds exactly when the string starts with '#' or
\* '0x' followed by 6 hex digits, whatever follows them, and returns the Color
\* those 6 digits spell; an occurrence further in the string is not found.
C7_AtStart ==
    pc = "parsed" =>
        /\ res.ok <=> ParseStartsWithOccurrence
        /\ res.ok => res.color = ParseFirstOccurrence

\* A string that starts with a colour followed by more text has been parsed.
C7_Witness ==
    /\ pc = "parsed"
    /\ res.ok
    /\ src.pre = <<>> /\ src.post = <<"\"">>
    /\ res.color = [r |-> 255, g |-> 0, b |-> 158]

-----------------------------------------------------------------------------
(* Test colours: 20 distinct colours, each with the text Color.hex is      *)
(* expected to give for it.                                                *)
Palette ==
  << [lit |-> <<"#","0","0","0","0","0","0">>, color |-> [r |-> 0, g |-> 0, b |-> 0]],
     [lit |-> <<"#","f","f","f","f","f","f">>, color |-> [r |-> 255, g |-> 255, b |-> 255]],
     [lit |-> <<"#","c","c","c","c","c","c">>, color |-> [r |-> 204, g |-> 204, b |-> 204]],
     [lit |-> <<"#","5","5","5","5","5","5">>, color |-> [r |-> 85, g |-> 85, b |-> 85]],
     [lit |-> <<"#","f","f","0","0","0","0">>, color |-> [r |-> 255, g |-> 0, b |-> 0]],
     [lit |-> <<"#","0","0","0","a","a","0">>, color |-> [r |-> 0, g |-> 10, b |-> 160]],
     [lit |-> <<"#","7","8","9","b","3","4">>, color |-> [r |-> 120, g |-> 155, b |-> 52]],
     [lit |-> <<"#","c","a","f","5","4","f">>, color |-> [r |-> 202, g |-> 245, b |-> 79]],
     [lit |-> <<"#","2","e","2","2","0","a">>, color |-> [r |-> 46, g |-> 34, b |-> 10]],
     [lit |-> <<"#","c","d","9","4","1","e">>, color |-> [r |-> 205, g |-> 148, b |-> 30]],
     [lit |-> <<"#","7","1","b","8","8","d">>, color |-> [r |-> 113, g |-> 184, b |-> 141]],
     [lit |-> <<"#","5","8","3","6","8","6">>, color |-> [r |-> 88, g |-> 54, b |-> 134]],
     [lit |-> <<"#","6","d","0","d","8","5">>, color |-> [r |-> 109, g |-> 13, b |-> 133]],
     [lit |-> <<"#","8","b","6","3","5","4">>, color |-> [r |-> 139, g |-> 99, b |-> 84]],
     [lit |-> <<"#","9","e","9","4","b","e">>, color |-> [r |-> 158, g |-> 148, b |-> 190]],
     [lit |-> <<"#","2","c","a","c","c","6">>, color |-> [r |-> 44, g |-> 172, b |-> 198]],
     [lit |-> <<"#","7","f","5","b","7","e">>, color |-> [r |-> 127, g |-> 91, b |-> 126]],
     [lit |-> <<"#","f","2","8","f","2","d">>, color |-> [r |-> 242, g |-> 143, b |-> 45]],
     [lit |-> <<"#","9","9","0","3","9","5">>, color |-> [r |-> 153, g |-> 3, b |-> 149]],
     [lit |-> <<"#","9","f","6","3","d","3">>, color |-> [r |-> 159, g |-> 99, b |-> 211]]>>

\* The text expected for a colour of the palette.
LitOf(c) == Palette[CHOOSE n \in 1..Len(Palette) : Palette[n].color = c].lit

\* Number of rotations of the palette over the fields that are tried.
MaxRotation == 2

\* The palette entry of the n-th field of FieldOrder under rotation k.
PaletteOf(n, k) == Palette[((n + k - 1) % Len(Palette)) + 1]
FieldIndex(f) == CHOOSE n \in 1..Len(FieldOrder) : FieldOrder[n] = f

\* A fully populated Theme whose 20 fields hold 20 different colours.
TestTheme(k) == [f \in ThemeFields |-> PaletteOf(FieldIndex(f), k).color]

-----------------------------------------------------------------------------
(* Encoders, and decoders on the encoders' own output: a Theme is encoded, *)
(* the text written is fed back to the decoder of the same format, and the *)
(* Theme decoded is encoded again.  src.first keeps the first rendering.   *)
InitCodec ==
    /\ \E k \in 0..MaxRotation, f \in OFORMATS :
        /\ theme = TestTheme(k)
        /\ ofmt = f
        /\ ifmt = IF f \in IFORMATS THEN f ELSE None
        /\ src = [round |-> 1, k |-> k, first |-> <<>>]
    /\ pc = "encode"
    /\ args = NoArgs /\ infile = <<>> /\ doc = YNull
    /\ lineno = 0 /\ i = 0 /\ color_dict = EmptyDict
    /\ err = "none" /\ out = <<>> /\ status = -1 /\ calls = <<>>
    /\ NoParse

\* A second run of the program, on what the first run wrote.
Rerun ==
    /\ pc = "exit" /\ status = 0
    /\ src.round = 1
    /\ ofmt \in IFORMATS
    /\ infile' = out
    /\ src' = [src EXCEPT !.round = 2, !.first = out]
    /\ out' = <<>>
    /\ theme' = NoTheme
    /\ pc' = "call"
    /\ status' = -1
    /\ calls' = <<>>
    /\ UNCHANGED <<args, ifmt, ofmt, doc, lineno, i, color_dict, err, s, res>>

NextCodec ==
    \/ CallEncoder
    \/ Rerun
    \/ CallDecoder
    \/ NidxLine
    \/ CsvLine
    \/ StconfLine
    \/ XresLineStep
    \/ ReturnTheme
SpecCodec == InitCodec /\ [][NextCodec]_vars

\* C1: for nidx, csv, xres and stconf and every fully populated Theme T,
\* decoding the text encode(T) never fails, and when the second run ends it
\* has written the very text encode(T).
C1_RoundTrip ==
    src.round = 2 =>
        /\ err = "none"
        /\ pc = "exit" => (status = 0 /\ theme # NoTheme /\ out = src.first)

\* The second run has ended, on the embedded-config rendering of a Theme.
C1_Witness ==
    /\ src.round = 2 /\ pc = "exit" /\ ifmt = "stconf"
    /\ Len(out) = 23 /\ out = src.first
    /\ theme[S_black] = TestTheme(src.k)[S_black]

\* The palette index as write_osc is expected to print it.
OscIndexLit ==
    << <<"0">>, <<"1">>, <<"2">>, <<"3">>, <<"4">>, <<"5">>, <<"6">>, <<"7">>, <<"8">>,
       <<"9">>, <<"1","0">>, <<"1","1">>, <<"1","2">>, <<"1","3">>, <<"1","4">>,
       <<"1","5">> >>

\* The names of the canonical 16-name table, by palette index.
OscNameOf ==
    << <<"b","l","a","c","k">>, <<"r","e","d">>, <<"g","r","e","e","n">>,
       <<"y","e","l","l","o","w">>, <<"b","l","u","e">>, <<"m","a","g","e","n","t","a">>,
       <<"c","y","a","n">>, <<"w","h","i","t","e">>,
       <<"b","l","a","c","k","_","b","r","i","g","h","t">>,
       <<"r","e","d","_","b","r","i","g","h","t">>,
       <<"g","r","e","e","n","_","b","r","i","g","h","t">>,
       <<"y","e","l","l","o","w","_","b","r","i","g","h","t">>,
       <<"b","l","u","e","_","b","r","i","g","h","t">>,
       <<"m","a","g","e","n","t","a","_","b","r","i","g","h","t">>,
       <<"c","y","a","n","_","b","r","i","g","h","t">>,
       <<"w","h","i","t","e","_","b","r","i","g","h","t">> >>

RECURSIVE OscExpectedPalette(_, _)
\* The palette sequences for the indices of `order`, from its n-th on.
OscExpectedPalette(order, n) ==
    IF n > Len(order) THEN <<>>
    ELSE <<"ESC", "]", "4", ";">> \o OscIndexLit[order[n] + 1] \o <<";">>
         \o LitOf(theme[OscNameOf[order[n] + 1]]) \o <<"BEL">>
         \o OscExpectedPalette(order, n + 1)

\* 19 sequences, each ended by BEL, nothing between or after them: the 16
\* palette sequences in the given order, then OSC 10, 11 and 12.
OscExpected(order) ==
    << OscExpectedPalette(order, 1)
       \o <<"ESC", "]", "1", "0", ";">> \o LitOf(theme[S_foreground]) \o <<"BEL">>
       \o <<"ESC", "]", "1", "1", ";">> \o LitOf(theme[S_background]) \o <<"BEL">>
       \o <<"ESC", "]", "1", "2", ";">> \o LitOf(theme[S_cursor]) \o <<"BEL">> >>

OscWritten == ofmt = "osc" /\ pc = "exit"

\* C5 as claimed: write_osc writes exactly 19 BEL-terminated sequences and
\* nothing else, the palette sequences in the order 0, 1, ..., 15.
C5_NormalThenBright ==
    OscWritten => out = OscExpected(<<0, 1, 2, 3, 4, 5, 6, 7, 8, 9, 10, 11, 12, 13, 14, 15>>)

\* C5 amended: write_osc writes exactly 19 BEL-terminated sequences and
\* nothing else: the 16 palette sequences OSC 4;<index>;<hex> in the order
\* 0, 8, 1, 9, ..., 7, 15 (each normal colour followed by its bright variant),
\* then OSC 10 with foreground, OSC 11 with background, OSC 12 with cursor;
\* palette index i carries the colour of the i-th canonical name.
C5_Interleaved ==
    OscWritten => out = OscExpected(<<0, 8, 1, 9, 2, 10, 3, 11, 4, 12, 5, 13, 6, 14, 7, 15>>)

\* write_osc has written the 19 sequences of a Theme.
C5_Witness ==
    /\ OscWritten
    /\ calls = <<"write_osc">>
    /\ Len(out) = 1
    /\ Cardinality({n \in 1..Len(out[1]) : out[1][n] = "BEL"}) = 19

-----------------------------------------------------------------------------
(* read_stconf on hand-built fragments.  src is the list of the fragment's *)
(* lines as the test wrote them: a colour literal with or without an       *)
(* explicit index, a commented-out literal, or a line with no literal.     *)
(* The literal of the n-th line holds the n-th colour of the palette.      *)

\* Longest fragment tried, apart from the two long ones below.
MaxEntries == 3

\* val is the explicit index, -1 for a literal without one.
StconfChoices ==
    {[kind |-> "lit", lit |-> <<>>, val |-> -1],
     [kind |-> "lit", lit |-> <<"0">>, val |-> 0],
     [kind |-> "lit", lit |-> <<"1", "5">>, val |-> 15],
     [kind |-> "lit", lit |-> <<"1", "6">>, val |-> 16],
     [kind |-> "lit", lit |-> <<"2", "5", "6">>, val |-> 256],
     [kind |-> "lit", lit |-> <<"2", "5", "7">>, val |-> 257],
     [kind |-> "lit", lit |-> <<"3", "0", "0">>, val |-> 300],
     [kind |-> "comment", lit |-> <<"3">>, val |-> 3],
     [kind |-> "plain", lit |-> <<>>, val |-> -1]}

Unindexed == [kind |-> "lit", lit |-> <<>>, val |-> -1]

StconfFragments ==
    UNION {[1..n -> StconfChoices] : n \in 1..MaxEntries}
    \cup {[n \in 1..17 |-> Unindexed]}
    \cup {[n \in 1..18 |-> IF n = 17 THEN [kind |-> "lit", lit |-> <<"2", "5", "6">>, val |-> 256]
                          ELSE Unindexed]}

\* The text of the n-th line of a fragment.
StconfText(e, n) ==
    LET literal == <<"\"">> \o Palette[n].lit \o <<"\"", ",", "\n">>
        indexed == <<"[">> \o e.lit \o <<"]", " ", "=", " ">> \o literal
    IN  IF e.kind = "plain" THEN <<"/", "*", " ", "c", "o", "l", "o", "r", "s", " ", "*", "/", "\n">>
        ELSE IF e.kind = "comment" THEN <<"/", "/", " ">> \o indexed
        ELSE IF e.val >= 0 THEN <<" ", " ">> \o indexed
        ELSE <<"\t">> \o literal

InitStconf ==
    /\ src \in StconfFragments
    /\ infile = [n \in 1..Len(src) |-> StconfText(src[n], n)]
    /\ ifmt = "stconf" /\ ofmt = "nidx"
    /\ pc = "call"
    /\ args = NoArgs /\ doc = YNull
    /\ lineno = 0 /\ i = 0 /\ color_dict = EmptyDict /\ theme = NoTheme
    /\ err = "none" /\ out = <<>> /\ status = -1 /\ calls = <<>>
    /\ NoParse

NextStconf ==
    \/ CallDecoder
    \/ StconfLine
    \/ ReturnTheme
    \/ CallEncoder
SpecStconf == InitStconf /\ [][NextStconf]_vars

\* The Theme slot of an index, as the specification gives it.
SlotOfIndex(n) ==
    IF n = 256 THEN <<"b","a","c","k","g","r","o","u","n","d">>
    ELSE IF n = 257 THEN <<"f","o","r","e","g","r","o","u","n","d">>
    ELSE OscNameOf[n + 1]
KnownIndex(n) == n \in 0..15 \/ n = 256 \/ n = 257

\* The decoder is about to read a colour literal / has just read one.
AtLiteral == pc = "decode" /\ lineno < Len(src) /\ i <= 257 /\ src[lineno + 1].kind = "lit"
\* The index the literal at hand is to be recorded at.
EffectiveIndex == IF src[lineno + 1].val >= 0 THEN src[lineno + 1].val ELSE i

\* C3: the running index starts at 0; a literal is recorded at its explicit
\* index if it has one, else at the running index, and the running index then
\* is the recorded index plus one; [256] = "#000000" followed by "#ffffff"
\* puts #000000 in background and #ffffff in foreground.
C3_RunningIndex ==
    /\ [](pc = "decode" /\ lineno = 0 => i = 0)
    /\ [][AtLiteral /\ KnownIndex(EffectiveIndex) =>
            /\ lineno' = lineno + 1
            /\ (DOMAIN color_dict') = (DOMAIN color_dict) \cup {SlotOfIndex(EffectiveIndex)}
            /\ color_dict'[SlotOfIndex(EffectiveIndex)] = Palette[lineno + 1].color
            /\ \A f \in (DOMAIN color_dict) \ {SlotOfIndex(EffectiveIndex)} :
                    color_dict'[f] = color_dict[f]
            /\ i' = EffectiveIndex + 1]_vars
    /\ [](Len(src) = 2 /\ src[1].val = 256 /\ src[2] = Unindexed /\ lineno = 2 =>
            /\ color_dict[S_background] = [r |-> 0, g |-> 0, b |-> 0]
            /\ color_dict[S_foreground] = [r |-> 255, g |-> 255, b |-> 255])

\* [256] = "#000000" followed by "#ffffff" has been read.
C3_Witness ==
    /\ Len(src) = 2 /\ src[1].val = 256 /\ src[2] = Unindexed
    /\ lineno = 2 /\ i = 258
    /\ DOMAIN color_dict = {S_background, S_foreground}

\* C8: a literal whose index (explicit, or the running index) is none of
\* 0..15, 256, 257 makes read_stconf raise KeyError there and then: it is
\* stored in no slot, reading does not go on, and no Theme is returned.
C8_UnknownIndex ==
    /\ [][AtLiteral /\ ~KnownIndex(EffectiveIndex) =>
            /\ err' = "KeyError" /\ pc' = "exit" /\ status' = 1
            /\ color_dict' = color_dict /\ lineno' = lineno /\ theme' = NoTheme]_vars
    /\ [](err = "KeyError" => theme = NoTheme /\ pc = "exit" /\ calls = <<"read_stconf">>)

\* The 17th of 17 literals without an index has raised KeyError.
C8_Witness ==
    /\ Len(src) = 17 /\ lineno = 16 /\ i = 16
    /\ err = "KeyError" /\ pc = "exit"
    /\ Cardinality(DOMAIN color_dict) = 16

-----------------------------------------------------------------------------
(* read_xres on hand-built resource files.  src lists the lines as the     *)
(* test wrote them: kind says what the line is, slot the Theme field a     *)
(* line with a known label stands for.  The n-th line holds the n-th       *)
(* colour of the palette.                                                  *)

\* Longest resource file tried.
MaxXresLines == 2

XresChoices ==
    {[kind |-> "known", slot |-> S_foreground,
      head |-> <<"*", ".", "f", "o", "r", "e", "g", "r", "o", "u", "n", "d", ":", " ">>],
     [kind |-> "known", slot |-> S_background,
      head |-> <<"U", "R", "x", "v", "t", "*", "b", "a", "c", "k", "g", "r", "o", "u", "n", "d", ":">>],
     [kind |-> "known", slot |-> S_cursor,
      head |-> <<"x", "t", "e", "r", "m", ".", "c", "u", "r", "s", "o", "r", "C", "o", "l", "o", "r", ":", " ", " ">>],
     [kind |-> "known", slot |-> S_black,
      head |-> <<"*", ".", "c", "o", "l", "o", "r", "0", ":", " ">>],
     [kind |-> "known", slot |-> Bright(S_white),
      head |-> <<"*", "c", "o", "l", "o", "r", "1", "5", ":", " ">>],
     [kind |-> "known", slot |-> S_white,
      head |-> <<"*", "c", "o", "l", "o", "r", "0", "7", ":", " ">>],
     [kind |-> "badindex", slot |-> <<>>,
      head |-> <<"*", ".", "c", "o", "l", "o", "r", "1", "6", ":", " ">>],
     [kind |-> "badnumber", slot |-> <<>>,
      head |-> <<"*", ".", "c", "o", "l", "o", "r", "B", "D", ":", " ">>],
     [kind |-> "otherlabel", slot |-> <<>>,
      head |-> <<"*", ".", "b", "o", "r", "d", "e", "r", "C", "o", "l", "o", "r", ":", " ">>],
     [kind |-> "noshape", slot |-> <<>>,
      head |-> <<"*", ".", "f", "o", "n", "t", ":", " ", "m", "o", "n", "o", " ">>],
     [kind |-> "blank", slot |-> <<>>, head |-> <<" ">>],
     [kind |-> "comment", slot |-> <<>>,
      head |-> <<"!", " ", "*", ".", "c", "o", "l", "o", "r", "1", ":", " ">>]}

XresFiles == UNION {[1..n -> XresChoices] : n \in 1..MaxXresLines}

\* The text of the n-th line of a resource file.
XresText(e, n) ==
    IF e.kind = "blank" THEN e.head \o NL
    ELSE IF e.kind = "noshape" THEN e.head \o Tail(Palette[n].lit) \o NL
    ELSE e.head \o Palette[n].lit \o NL

InitXres ==
    /\ src \in XresFiles
    /\ infile = [n \in 1..Len(src) |-> XresText(src[n], n)]
    /\ ifmt = "xres" /\ ofmt = "nidx"
    /\ pc = "call"
    /\ args = NoArgs /\ doc = YNull
    /\ lineno = 0 /\ i = 0 /\ color_dict = EmptyDict /\ theme = NoTheme
    /\ err = "none" /\ out = <<>> /\ status = -1 /\ calls = <<>>
    /\ NoParse

NextXres ==
    \/ CallDecoder
    \/ XresLineStep
    \/ ReturnTheme
SpecXres == InitXres /\ [][NextXres]_vars

\* The decoder is about to read a line of the given kind.
AtXres(kinds) == pc = "decode" /\ lineno < Len(src) /\ src[lineno + 1].kind \in kinds

\* The line at hand sets exactly its slot, and reading goes on.
XresSetsSlot ==
    /\ lineno' = lineno + 1 /\ err' = "none" /\ pc' = "decode"
    /\ (DOMAIN color_dict') = (DOMAIN color_dict) \cup {src[lineno + 1].slot}
    /\ color_dict'[src[lineno + 1].slot] = Palette[lineno + 1].color
    /\ \A f \in (DOMAIN color_dict) \ {src[lineno + 1].slot} : color_dict'[f] = color_dict[f]

\* The line at hand makes read_xres raise; nothing is stored.
XresFails(kinds) ==
    /\ err' \in kinds /\ pc' = "exit" /\ status' = 1
    /\ color_dict' = color_dict /\ theme' = NoTheme

\* The line at hand is passed over: nothing stored, nothing raised.
XresPassedOver ==
    /\ lineno' = lineno + 1 /\ err' = "none" /\ pc' = "decode"
    /\ color_dict' = color_dict

\* C9 as claimed: a line that is neither blank nor a comment either has a
\* label of the known table and sets exactly its slot, or makes read_xres
\* fail: a parse error without the label: #rrggbb shape, an unknown-key error
\* with the shape and a label outside the table.  None is passed over.
C9_NeverSkipped ==
    /\ [][AtXres({"known"}) => XresSetsSlot]_vars
    /\ [][AtXres({"noshape"}) => XresFails({"Exception"})]_vars
    /\ [][AtXres({"badindex", "badnumber", "otherlabel"}) =>
            XresFails({"KeyError", "ValueError"})]_vars

\* C9 amended: a line that is neither blank nor a comment (a) sets exactly
\* the slot of its label when the reduced label is foreground, background,
\* cursorColor or color<N> with N a number in 0..15, however written (color7,
\* color07); (b) makes read_xres fail: with a
\* parse error when it has not the label: #rrggbb shape, with KeyError when
\* the reduced label is color<N> with N a number outside 0..15, with
\* ValueError when it starts with 'color' and what follows is no number; or
\* (c) is passed over without any error when it has the shape and its reduced
\* label is none of foreground, background, cursorColor and does not start
\* with 'color'.
C9_OtherLabelsSkipped ==
    /\ [][AtXres({"known"}) => XresSetsSlot]_vars
    /\ [][AtXres({"noshape"}) => XresFails({"Exception"})]_vars
    /\ [][AtXres({"badindex"}) => XresFails({"KeyError"})]_vars
    /\ [][AtXres({"badnumber"}) => XresFails({"ValueError"})]_vars
    /\ [][AtXres({"otherlabel"}) => XresPassedOver]_vars

\* *.borderColor has been passed over and the *background line after it read.
C9_Witness ==
    /\ Len(src) = 2 /\ src[1].kind = "otherlabel" /\ src[2].slot = S_background
    /\ lineno = 2 /\ err = "none"
    /\ DOMAIN color_dict = {S_background}

-----------------------------------------------------------------------------
(* The six decoders on hand-built inputs that supply the Theme's fields    *)
(* one by one.  src says which decoder is run (dec), which of the 18       *)
(* fields without a default the input leaves out (drop), whether it gives  *)
(* cursor and cursor_reverse, and whether the fields come in the order of  *)
(* FieldOrder or in the reverse order (rev).  The field that is n-th in    *)
(* FieldOrder is given the n-th colour of the palette.                     *)

\* Largest number of fields left out.
MaxDropped == 1

Decoders == {"gogh", "alacritty", "nidx", "csv", "stconf", "xres"}
\* The formats that can spell cursor, resp. cursor_reverse.
SpellsCursor == {"gogh", "nidx", "csv", "xres"}
SpellsCursorReverse == {"nidx", "csv"}

DecodeCases ==
    {c \in [dec : Decoders, drop : SUBSET RequiredFields, cursor : BOOLEAN,
            cursor_reverse : BOOLEAN, rev : BOOLEAN] :
        /\ Cardinality(c.drop) <= MaxDropped
        /\ c.cursor => c.dec \in SpellsCursor
        /\ c.cursor_reverse => c.dec \in SpellsCursorReverse
        /\ c.rev => c.dec \in {"nidx", "csv", "stconf", "xres"}}

Supplied(c, f) ==
    IF f = S_cursor THEN c.cursor
    ELSE IF f = S_cursor_reverse THEN c.cursor_reverse
    ELSE f \notin c.drop

Reverse(seq) == [n \in 1..Len(seq) |-> seq[Len(seq) + 1 - n]]

\* The fields the input supplies, in the order it lists them.
SuppliedFields(c) ==
    LET fs == SelectSeq(FieldOrder, LAMBDA f : Supplied(c, f))
    IN  IF c.rev THEN Reverse(fs) ELSE fs

FixtureLit(f) == Palette[FieldIndex(f)].lit
FixtureColor(f) == Palette[FieldIndex(f)].color

\* The position of a colour name in the canonical 16-name table, from 0.
CanonicalIndex(f) == (CHOOSE n \in 1..16 : OscNameOf[n] = f) - 1

GoghKeyLit ==
    << <<"0","1">>, <<"0","2">>, <<"0","3">>, <<"0","4">>, <<"0","5">>, <<"0","6">>,
       <<"0","7">>, <<"0","8">>, <<"0","9">>, <<"1","0">>, <<"1","1">>, <<"1","2">>,
       <<"1","3">>, <<"1","4">>, <<"1","5">>, <<"1","6">> >>

\* How each format names a field.
StconfIndexLit(f) ==
    IF f = S_background THEN <<"2", "5", "6">>
    ELSE IF f = S_foreground THEN <<"2", "5", "7">>
    ELSE OscIndexLit[CanonicalIndex(f) + 1]
XresLabel(f) ==
    IF f \in {S_foreground, S_background} THEN f
    ELSE IF f = S_cursor THEN <<"c","u","r","s","o","r","C","o","l","o","r">>
    ELSE <<"c","o","l","o","r">> \o OscIndexLit[CanonicalIndex(f) + 1]
GoghKey(f) ==
    IF f \in {S_foreground, S_background, S_cursor} THEN f
    ELSE <<"c","o","l","o","r","_">> \o GoghKeyLit[CanonicalIndex(f) + 1]

\* The line a text format has for field f.
FixtureLine(dec, f) ==
    IF dec = "nidx" THEN f \o <<" ">> \o FixtureLit(f) \o NL
    ELSE IF dec = "csv" THEN f \o <<",">> \o FixtureLit(f) \o NL
    ELSE IF dec = "stconf"
         THEN <<"[">> \o StconfIndexLit(f) \o <<"]", " ", "=", " ", "\"">> \o FixtureLit(f)
              \o <<"\"", ",", "\n">>
    ELSE <<"*", ".">> \o XresLabel(f) \o <<":", " ">> \o FixtureLit(f) \o NL

FixtureText(c) ==
    [n \in 1..Len(SuppliedFields(c)) |-> FixtureLine(c.dec, SuppliedFields(c)[n])]

NormalFields == {COLORS_3BIT[n] : n \in 1..8}
\* the key read_yaml_alacritty has for a field: the name without _bright
AlacrittyKey(f) == IF f \in NormalFields \cup {S_foreground, S_background} THEN f
                   ELSE SubSeq(f, 1, Len(f) - 7)

\* The key a field has in the document of case c.
FixtureKey(c, f) == IF c.dec = "gogh" THEN GoghKey(f) ELSE AlacrittyKey(f)

\* The mapping {key(f): lit(f)} over the supplied fields among fs.
FixtureMap(c, fs) ==
    YMap([k \in {FixtureKey(c, f) : f \in {g \in fs : Supplied(c, g)}} |->
            YStr(FixtureLit(CHOOSE f \in fs : FixtureKey(c, f) = k))])

FixtureDoc(c) ==
    IF c.dec = "gogh" THEN FixtureMap(c, RequiredFields \cup {S_cursor})
    ELSE IF c.dec = "alacritty"
    THEN YMap((S_colors :> YMap(
            (S_primary :> FixtureMap(c, {S_foreground, S_background}))
            @@ (S_normal :> FixtureMap(c, NormalFields))
            @@ (S_brightkey :> FixtureMap(c, {Bright(f) : f \in NormalFields})))))
    ELSE YNull

InitDecode ==
    /\ src \in DecodeCases
    /\ ifmt = (IF src.dec \in {"gogh", "alacritty"} THEN "yaml" ELSE src.dec)
    /\ infile = (IF src.dec \in {"gogh", "alacritty"} THEN <<>> ELSE FixtureText(src))
    /\ doc = FixtureDoc(src)
    /\ ofmt = "nidx"
    /\ pc = "call"
    /\ args = NoArgs
    /\ lineno = 0 /\ i = 0 /\ color_dict = EmptyDict /\ theme = NoTheme
    /\ err = "none" /\ out = <<>> /\ status = -1 /\ calls = <<>>
    /\ NoParse

NextDecode ==
    \/ CallDecoder
    \/ NidxLine
    \/ CsvLine
    \/ StconfLine
    \/ XresLineStep
    \/ ReturnTheme
    \/ ReadYaml
    \/ ReadYamlGogh
    \/ ReadYamlAlacritty
SpecDecode == InitDecode /\ [][NextDecode]_vars

\* The decoder has returned a Theme / has ended without one.
Decoded == theme # NoTheme
DecodeFailed == pc = "exit" /\ err # "none" /\ theme = NoTheme
\* The decoder has not ended yet, or has ended as said.
MustDecode == err = "none" /\ (pc = "exit" => Decoded)
MustFail == ~Decoded /\ pc # "encode" /\ (pc = "exit" => DecodeFailed)

DefaultCursor == [r |-> 204, g |-> 204, b |-> 204]
DefaultCursorReverse == [r |-> 85, g |-> 85, b |-> 85]

\* The Theme holds what the input supplied, and the defaults for a cursor
\* or cursor_reverse it did not supply.
ThemeAsSupplied ==
    /\ \A f \in RequiredFields : theme[f] = FixtureColor(f)
    /\ theme[S_cursor] = IF src.cursor THEN FixtureColor(S_cursor) ELSE DefaultCursor
    /\ theme[S_cursor_reverse] =
          IF src.cursor_reverse THEN FixtureColor(S_cursor_reverse) ELSE DefaultCursorReverse

\* C2: read_nidx fails, returning no Theme, on a well-formed input that lacks
\* exactly one of the 18 fields without a default; on an input with all 18 it
\* succeeds whether or not cursor and cursor_reverse are given, an omitted one
\* holding its default (#cccccc, #555555).
C2_NidxMissingField ==
    src.dec = "nidx" =>
        /\ Cardinality(src.drop) = 1 => MustFail
        /\ src.drop = {} => MustDecode /\ (Decoded => ThemeAsSupplied)

\* read_nidx has returned a Theme for an input without cursor.
C2_Witness ==
    /\ src.dec = "nidx" /\ src.drop = {} /\ ~src.cursor /\ src.cursor_reverse
    /\ Decoded /\ pc = "encode"
    /\ theme[S_cursor] = DefaultCursor
    /\ theme[S_cursor_reverse] # DefaultCursorReverse

\* C10 as claimed: every decoder succeeds, with cursor = #cccccc and
\* cursor_reverse = #555555, on an input that supplies the 18 other fields and
\* neither cursor; every decoder fails on an input that leaves one of the
\* 18 unset.
C10_EveryDecoder ==
    /\ (src.drop = {} /\ ~src.cursor /\ ~src.cursor_reverse) =>
            MustDecode /\ (Decoded => ThemeAsSupplied)
    /\ src.drop # {} => MustFail

\* read_stconf stops reading after the literal it records at index 257.
StopsEarly == src.dec = "stconf" /\ ~src.rev

\* C10 amended: read_yaml_alacritty, read_nidx, read_csv and read_xres succeed,
\* with cursor = #cccccc and cursor_reverse = #555555, on an input that
\* supplies the 18 other fields and neither cursor; so does read_stconf when
\* the literal of index 257 is the last of the 18, and it fails when literals
\* follow that one, since it stops reading there; read_yaml_gogh requires the
\* cursor key: it fails with KeyError without it and, given it, succeeds with
\* cursor_reverse = #555555.  Every decoder fails on an input that leaves one
\* of the 18 unset.
C10_GoghNeedsCursor ==
    /\ (src.drop = {} /\ ~src.cursor /\ ~src.cursor_reverse
            /\ src.dec # "gogh" /\ ~StopsEarly) =>
            MustDecode /\ (Decoded => ThemeAsSupplied)
    /\ (src.drop = {} /\ StopsEarly) => MustFail
    /\ (src.drop = {} /\ src.dec = "gogh" /\ ~src.cursor) =>
            MustFail /\ (pc = "exit" => err = "KeyError")
    /\ (src.drop = {} /\ src.dec = "gogh" /\ src.cursor) =>
            MustDecode /\ (Decoded => ThemeAsSupplied)
    /\ src.drop # {} => MustFail

\* read_yaml_alacritty has returned a Theme with both defaults.
C10_Witness ==
    /\ src.dec = "alacritty" /\ src.drop = {}
    /\ Decoded /\ pc = "encode"
    /\ theme[S_cursor] = DefaultCursor /\ theme[S_cursor_reverse] = DefaultCursorReverse
    /\ calls = <<"read_yaml", "read_yaml_alacritty">>

-----------------------------------------------------------------------------
(* read_yaml on documents of every shape its tests distinguish.  src says  *)
(* what the document is (top: a mapping, null as for an empty stream, or a *)
(* plain string), whether it has the key color_01 (for a string: whether   *)
(* it contains that text), what the value of its key colors is, and        *)
(* whether the rest of the keys of the schema are there too (full).        *)
ColorsShapes == {"absent", "null", "str_primary", "str_other", "map_primary", "map_other"}

YamlCases ==
    {c \in [top : {"map", "null", "str"}, c01 : BOOLEAN, colors : ColorsShapes,
            full : BOOLEAN, ifmt : {"yaml", "yml"}] :
        /\ c.top # "map" => c.colors = "absent" /\ ~c.full
        /\ c.top = "null" => ~c.c01}

FullCase(dec) ==
    [dec |-> dec, drop |-> {}, cursor |-> TRUE, cursor_reverse |-> FALSE, rev |-> FALSE]

\* The keys of the numbered-key schema the document has.
YamlGoghPart(c) ==
    IF ~c.c01 THEN <<>>
    ELSE IF c.full THEN FixtureDoc(FullCase("gogh")).m
    ELSE (S_color_01 :> YStr(Palette[1].lit))

\* The key colors of the document, if it has one.
YamlColorsPart(c) ==
    IF c.colors = "absent" THEN <<>>
    ELSE IF c.colors = "null" THEN (S_colors :> YNull)
    ELSE IF c.colors = "str_primary" THEN (S_colors :> YStr(S_primary))
    ELSE IF c.colors = "str_other" THEN (S_colors :> YStr(<<"d", "a", "r", "k">>))
    ELSE IF c.colors = "map_other" THEN (S_colors :> YMap((S_normal :> YMap(<<>>))))
    ELSE IF c.full THEN FixtureDoc(FullCase("alacritty")).m
    ELSE (S_colors :> YMap((S_primary :> YMap(<<>>))))

YamlDoc(c) ==
    IF c.top = "null" THEN YNull
    ELSE IF c.top = "str"
         THEN YStr(IF c.c01 THEN <<"#", " ">> \o S_color_01 ELSE <<"p", "l", "a", "i", "n">>)
    ELSE YMap(YamlGoghPart(c) @@ YamlColorsPart(c))

InitYaml ==
    /\ src \in YamlCases
    /\ doc = YamlDoc(src)
    /\ ifmt = src.ifmt /\ ofmt = "nidx"
    /\ infile = <<>>
    /\ pc = "call"
    /\ args = NoArgs
    /\ lineno = 0 /\ i = 0 /\ color_dict = EmptyDict /\ theme = NoTheme
    /\ err = "none" /\ out = <<>> /\ status = -1 /\ calls = <<>>
    /\ NoParse

NextYaml ==
    \/ CallDecoder
    \/ ReadYaml
    \/ ReadYamlGogh
    \/ ReadYamlAlacritty
    \/ CallEncoder
SpecYaml == InitYaml /\ [][NextYaml]_vars

\* read_yaml has taken its branch.
Dispatched == pc \notin {"call", "decode"}
HasColor01Key == src.top = "map" /\ src.c01
HasColorsPrimary == src.top = "map" /\ src.colors = "map_primary"
RoutedTo(reader) == Len(calls) >= 2 /\ calls[1] = "read_yaml" /\ calls[2] = reader

\* C4: a document with the key color_01 goes to read_yaml_gogh, also when it
\* has a key colors; one without color_01 and with colors.primary goes to
\* read_yaml_alacritty; on every other document read_yaml fails with the
\* unrecognized-schema error (ValueError) and calls neither.
C4_Dispatch ==
    Dispatched =>
        IF HasColor01Key THEN RoutedTo("read_yaml_gogh")
        ELSE IF HasColorsPrimary THEN RoutedTo("read_yaml_alacritty")
        ELSE calls = <<"read_yaml">> /\ err = "ValueError" /\ pc = "exit"

-----------------------------------------------------------------------------
(* main().  args is the parsed command line: the two paths, the two format *)
(* flags (None when not given; argparse has checked them against the       *)
(* registry), and whether the input file can be opened.  src names the     *)
(* content of the input.                                                   *)
InPaths == {"-", "t.nidx", "t.yml", "t.txt"}
OutPaths == {"-", "t.csv", "t.osc", "t.yaml"}
InFlags == {None, "nidx", "csv", "stconf", "xres", "yaml"}
OutFlags == {None, "stconf", "xres", "nidx"}
Contents == {"nidx", "csv", "stconf", "xres", "gogh", "alacritty", "broken"}

\* Path(path).suffix.lstrip('.')
Ext(path) ==
    CASE path = "t.nidx" -> "nidx"
      [] path = "t.yml" -> "yml"
      [] path = "t.txt" -> "txt"
      [] path = "t.csv" -> "csv"
      [] path = "t.osc" -> "osc"
      [] path = "t.yaml" -> "yaml"
      [] OTHER -> ""

\* The lines of the input.  The text of a nested YAML input is cut short
\* after its first line: only read_yaml, which takes the document, gets far.
ContentText(c) ==
    IF c = "alacritty" THEN <<S_colors \o <<":", "\n">> >>
    ELSE IF c = "broken" THEN << <<"f", "o", "r", "e", "g", "r", "o", "u", "n", "d", "\n">> >>
    ELSE IF c = "gogh"
    THEN [n \in 1..19 |-> GoghKey(GoghReads[n].field) \o <<":", " ", "\"">>
                          \o FixtureLit(GoghReads[n].field) \o <<"\"", "\n">>]
    ELSE Encode(c, <<>>, TestTheme(0))

\* What yaml.safe_load gives for the input; for an input that is no YAML
\* mapping it is taken to be a plain string.
ContentDoc(c) ==
    IF c \in {"gogh", "alacritty"} THEN FixtureDoc(FullCase(c))
    ELSE YStr(<<"t", "e", "x", "t">>)

InitMain ==
    /\ args \in [infile : InPaths, outfile : OutPaths, ifmt : InFlags, ofmt : OutFlags,
                 readable : BOOLEAN]
    /\ src \in Contents
    /\ infile = ContentText(src)
    /\ doc = ContentDoc(src)
    /\ pc = "start"
    /\ ifmt = None /\ ofmt = None
    /\ lineno = 0 /\ i = 0 /\ color_dict = EmptyDict /\ theme = NoTheme
    /\ err = "none" /\ out = <<>> /\ status = -1 /\ calls = <<>>
    /\ NoParse

\* A defect: the message is printed but the process ends as if all was well.
DieQuietly == pc' = "exit" /\ status' = 0

\* print(..., file=sys.stderr); sys.exit(1)
Die == pc' = "exit" /\ status' = 1

\* main, lines 332-337
MainCheckStreams ==
    /\ pc = "start"
    /\ IF args.infile = "-" /\ args.ifmt = None THEN Die
       ELSE IF args.outfile = "-" /\ args.ofmt = None THEN Die
       ELSE pc' = "resolve" /\ UNCHANGED status
    /\ UNCHANGED <<ifmt, ofmt, lineno, i, color_dict, theme, err, out, calls, InputVars>>

\* The format main settles on: the flag, else the extension if the registry
\* knows it, else None.
Resolved(flag, path, registry) ==
    IF flag # None THEN flag ELSE IF Ext(path) \in registry THEN Ext(path) ELSE None

\* main, lines 339-355
MainResolve ==
    /\ pc = "resolve"
    /\ ifmt' = Resolved(args.ifmt, args.infile, IFORMATS)
    /\ IF ifmt' = None THEN Die /\ UNCHANGED ofmt
       ELSE /\ ofmt' = Resolved(args.ofmt, args.outfile, OFORMATS)
            /\ IF ofmt' = None THEN Die ELSE pc' = "open" /\ UNCHANGED status
    /\ UNCHANGED <<lineno, i, color_dict, theme, err, out, calls, InputVars>>

\* main, lines 357-360: open() raises on an input file that cannot be opened;
\* the output file is opened, and so emptied, before anything is decoded.
MainOpen ==
    /\ pc = "open"
    /\ IF args.infile # "-" /\ ~args.readable
       THEN Raise("OSError")
       ELSE pc' = "call" /\ UNCHANGED <<err, status>>
    /\ UNCHANGED <<ifmt, ofmt, lineno, i, color_dict, theme, out, calls, InputVars>>

NextMain ==
    \/ MainCheckStreams
    \/ MainResolve
    \/ MainOpen
    \/ CallDecoder
    \/ NidxLine
    \/ CsvLine
    \/ StconfLine
    \/ XresLineStep
    \/ ReturnTheme
    \/ ReadYaml
    \/ ReadYamlGogh
    \/ ReadYamlAlacritty
    \/ CallEncoder
SpecMain == InitMain /\ [][NextMain]_vars

EncoderNames == {"write_stconf", "write_nidx", "write_xres", "write_csv", "write_osc"}
DecoderNames == {"read_yaml", "read_nidx", "read_stconf", "read_xres", "read_csv"}
\* The places in the call history where an encoder was invoked.
EncoderCalls == {n \in 1..Len(calls) : calls[n] \in EncoderNames}

\* C6: an encoder is invoked only after the decoder has returned a Theme; when
\* the format resolution or the decoder fails, no encoder is ever invoked,
\* nothing is written and the exit status is not 0; when the decoder succeeds,
\* the encoder is invoked exactly once, with that Theme, and the whole
\* rendering is written.
C6_Pipeline ==
    /\ EncoderCalls # {} =>
            /\ theme # NoTheme
            /\ EncoderCalls = {Len(calls)}
            /\ calls[1] \in DecoderNames
    /\ theme = NoTheme => out = <<>> /\ EncoderCalls = {}
    /\ out # <<>> => pc = "exit" /\ status = 0
    /\ (pc = "exit" /\ theme = NoTheme) => status > 0
    /\ (pc = "exit" /\ theme # NoTheme) =>
            /\ Cardinality(EncoderCalls) = 1
            /\ status = 0
            /\ out = Encode(ofmt, <<>>, theme)
            /\ EndsLine(out[Len(out)]) \/ ofmt = "osc"

\* A name-value file has been converted to X resources, the input format
\* taken from the file name.
C6_Witness ==
    /\ pc = "exit" /\ status = 0
    /\ args.infile = "t.nidx" /\ args.ifmt = None /\ ofmt = "xres"
    /\ calls = <<"read_nidx", "write_xres">>
    /\ Len(out) = 36

=============================================================================
